---- MODULE Spec2Model ----
(***************************************************************************)
(* SANDPIX invoicing: the document editors (the two InvoiceEditor sources  *)
(* and QuotationEditor), the document lists, the App that routes between   *)
(* them and persists drafts to the remote store, and the money/tax         *)
(* calculator.                                                             *)
(*                                                                         *)
(* Money is exact: an amount that the code divides by 100 is carried in    *)
(* hundredths, so no rounding enters the model.                            *)
(***************************************************************************)
EXTENDS Integers, Sequences, FiniteSets, TLC

VARIABLES
    build,      \* which InvoiceEditor source is built: "A" or "B"
    role,       \* currentUser.role
    view,       \* App view state
    data,       \* the mounted editor's draft (useState data)
    isPreview,  \* the mounted editor's isPreview
    loading,    \* App loading flag (the editors' isSaving prop)
    mem,        \* in-memory collections: [invoices, quotations]
    db,         \* remote store tables
    save,       \* the handleSave call in flight
    timers,     \* pending export timeouts (setTimeout ... 500)
    edits,      \* number of draft edits made so far
    saves,      \* number of saves started so far
    last,       \* the step taken last by the user or the store
    settings,   \* App settings
    users,      \* App users
    settingsView,   \* Settings view: [localSettings, isDirty]
    usersView,      \* Users view: [isFormOpen, editingId, formData]
    settingsWrites, \* settings upserts in flight
    calcIn,     \* input of the money/tax calculator
    calcOut,    \* its result: <<>> until computed, then <<totals>>
    accounts,   \* the rows of the users table, with their credentials
    login,      \* Login view: [pc, identifier, password, error, isLoading, fault]
    sandpix_user,   \* localStorage item 'sandpix_user'
    currentUser,    \* App currentUser (NoUser for null)
    appInitialized, \* App appInitialized
    userWrite,  \* handleUsersUpdate in flight: [pc, updates, inserts]
    refetch,    \* calls of fetchData that nobody awaits, in flight
    reportIn,   \* Reports: the invoices prop and the clock, [invoices, now, offset]
    report      \* Reports view: [mounted, startDate, endDate, filteredInvoices, stats]

vars == <<build, role, view, data, isPreview, loading, mem, db, save,
          timers, edits, saves, last, settings, users, settingsView, usersView,
          settingsWrites, calcIn, calcOut, accounts, login, sandpix_user,
          currentUser, appInitialized, userWrite, refetch, reportIn, report>>

appVars == <<build, role, view, data, isPreview, loading, mem, db, save,
             timers, edits, saves, last, settings, users, settingsView, usersView,
             settingsWrites>>

adminVars == <<settings, users, settingsView, usersView, settingsWrites>>

calcVars == <<calcIn, calcOut>>

loginVars == <<accounts, login, sandpix_user, currentUser, appInitialized>>

\* state of the views that are also checked on their own
reportVars == <<reportIn, report>>

\* the App's writes of users and the refetches they start
persistVars == <<userWrite, refetch>>

sideVars == <<calcVars, loginVars, reportVars, persistVars>>

None == "none"            \* an absent prop (undefined)
NoId == <<"none", 0>>      \* an absent id (undefined)

(***************************************************************************)
(* Bounds of the model.                                                    *)
(***************************************************************************)
MaxItems == 2       \* line items in a draft
MaxDocs == 2        \* documents per collection
MaxEdits == 2       \* draft edits per behaviour
MaxSaves == 1       \* saves started per behaviour
MaxTimers == 2      \* export timeouts pending at once
MaxCalcItems == 2   \* line items given to the calculator

(***************************************************************************)
(* Money/Tax calculator.                                                   *)
(***************************************************************************)
Quantities == {0, 1, 2}
Rates == {0, 25, 50}
TaxRates == {0, 6}

\* Array.prototype.reduce((acc, item) => acc + item.quantity * item.rate, 0)
RECURSIVE reduceAmounts(_, _, _)
reduceAmounts(items, i, acc) ==
    IF i > Len(items) THEN acc
    ELSE reduceAmounts(items, i + 1, acc + items[i].quantity * items[i].rate)

\* a reducer that adds the rate and forgets the quantity
RECURSIVE reduceRates(_, _, _)
reduceRates(items, i, acc) ==
    IF i > Len(items) THEN acc
    ELSE reduceRates(items, i + 1, acc + items[i].rate)

calculateSubtotal_rateOnly(items) == reduceRates(items, 1, 0)

calculateSubtotal(items) == reduceAmounts(items, 1, 0)

\* subtotal * (taxRate / 100), in hundredths
TaxAmountH(subtotal, taxRate) == subtotal * taxRate

GrandTotalH(subtotal, taxH) == 100 * subtotal + taxH

calculateTotals(items, taxRate) ==
    LET subtotal == calculateSubtotal(items)
        taxH == TaxAmountH(subtotal, taxRate)
    IN  [subtotal |-> subtotal, taxAmountH |-> taxH, totalH |-> GrandTotalH(subtotal, taxH)]

CalcItem == [quantity : Quantities, rate : Rates]

CalcItemLists == UNION {[1..n -> CalcItem] : n \in 0..MaxCalcItems}

(***************************************************************************)
(* Identifiers.  crypto.randomUUID() and the store's generated keys are    *)
(* UUIDs; an identifier is modelled by its shape and a number.  A fresh    *)
(* UUID is the least one not in use.                                       *)
(***************************************************************************)
Uuid(n) == <<"uuid", n>>

IdNumbers == 1..(2 * MaxDocs + MaxItems + 2)

randomUUID(used) ==
    Uuid(CHOOSE n \in IdNumbers : Uuid(n) \notin used /\ \A m \in 1..(n - 1) : Uuid(m) \in used)

IdLength(id) == IF id[1] = "uuid" THEN 36 ELSE 13

IdIncludesDash(id) == id[1] = "uuid"

(***************************************************************************)
(* Documents, line items and users' roles (types.ts).                      *)
(***************************************************************************)
Kinds == {"invoice", "quotation"}

Roles == {"admin", "editor", "viewer"}

InvoiceStatus == {"draft", "pending", "paid"}

QuotationStatus == {"draft", "sent", "accepted", "rejected"}

StatusOf(kind) == IF kind = "invoice" THEN InvoiceStatus ELSE QuotationStatus

NoDoc == [id |-> NoId]

ItemIds(d) == {d.items[i].id : i \in DOMAIN d.items}

\* settings.defaultTaxRate of the App's initial settings
defaultTaxRate == 6

\* The InvoiceEditor sources: "A" is the one with handleSaveClick, "B" the one
\* with handleDownloadPDF; "Q" is QuotationEditor.
Builds == {"A", "B"}

EditorOf(b, kind) == IF kind = "invoice" THEN b ELSE "Q"

\* const defaultInvoice / defaultQuotation
defaultDocument(kind, docId, itemId, number, taxRate) ==
    [id |-> docId,
     number |-> number,
     status |-> "draft",
     clientName |-> "",
     taxRate |-> taxRate,
     items |-> << [id |-> itemId,
                   description |-> IF kind = "invoice" THEN "Service Description"
                                   ELSE "Product/Service Description",
                   quantity |-> 1, rate |-> 0] >>]

\* useState(initialData || defaultInvoice)
initialDraft(initialData, kind, docId, itemId, number, taxRate) ==
    IF initialData # NoDoc THEN initialData
    ELSE defaultDocument(kind, docId, itemId, number, taxRate)

(***************************************************************************)
(* Editor handlers.  Sources A and Q share their code; B guards on         *)
(* isViewer inside the handler.                                            *)
(***************************************************************************)
\* a new item that starts with quantity 0
newLineItem_zeroQuantity(newId) == [id |-> newId, description |-> "", quantity |-> 0, rate |-> 0]

newLineItem(newId) == [id |-> newId, description |-> "", quantity |-> 1, rate |-> 0]

handleAddItem(d, newId) == [d EXCEPT !.items = Append(@, newLineItem(newId))]

addItem(d, isViewer, newId) ==
    IF isViewer THEN d ELSE [d EXCEPT !.items = Append(@, newLineItem(newId))]

\* a filter that drops the first item whatever the id
filterItems_first(items, id) == IF items = <<>> THEN items ELSE Tail(items)

filterItems(items, id) == SelectSeq(items, LAMBDA it : it.id # id)

handleRemoveItem(d, id) ==
    IF Len(d.items) = 1 THEN d ELSE [d EXCEPT !.items = filterItems(@, id)]

removeItem(d, isViewer, id) ==
    IF isViewer THEN d ELSE [d EXCEPT !.items = filterItems(@, id)]

mapItems(items, id, field, value) ==
    [i \in DOMAIN items |->
        IF items[i].id = id THEN [items[i] EXCEPT ![field] = value] ELSE items[i]]

handleItemChange(d, id, field, value) == [d EXCEPT !.items = mapItems(@, id, field, value)]

handleItemChange_B(d, isViewer, id, field, value) ==
    IF isViewer THEN d ELSE [d EXCEPT !.items = mapItems(@, id, field, value)]

\* setData({...data, [field]: value}) of the inline onChange handlers of A and Q
setField(d, field, value) == [d EXCEPT ![field] = value]

handleChange(d, isViewer, field, value) ==
    IF isViewer THEN d ELSE [d EXCEPT ![field] = value]

\* useState(isViewer ? true : initialMode === 'preview')
\* an initial value that looks at the role only
initialIsPreview_roleOnly(isViewer, initialMode) == isViewer

initialIsPreview(isViewer, initialMode) ==
    IF isViewer THEN TRUE ELSE initialMode = "preview"

\* initialMode={view.mode || 'edit'} and the prop's default, initialMode = 'edit'
initialModeProp(mode) == IF mode = None THEN "edit" ELSE mode

(***************************************************************************)
(* What each editor renders and enables (the JSX conditions).              *)
(***************************************************************************)
\* {!isViewer && <button onClick={() => setIsPreview(!isPreview)} ...>}
\* a toggle rendered for every role
toggleShown_anyRole(e, isViewer, isSaving) == e = "B" => ~isSaving

toggleShown(e, isViewer, isSaving) ==
    /\ ~isViewer
    /\ (e = "B" => ~isSaving)

\* {!isViewer && !isPreview && <button ... disabled={isSaving}>}
\* a save button that is rendered in preview too
saveShown_inPreview(e, isViewer, preview, isSaving) ==
    /\ ~isViewer
    /\ ~isSaving

saveShown(e, isViewer, preview, isSaving) ==
    /\ ~isViewer
    /\ ~preview
    /\ ~isSaving

\* Fields each editor offers, and when their inputs take input.
fieldShown(e, field, r, preview) ==
    CASE e = "B" ->
           /\ r # "viewer"                                     \* disabled={isViewer}
           /\ (field \in {"status", "taxRate"} => ~preview)    \* editOnlyClass
      [] e = "A" ->
           /\ ~preview
           /\ field # "status"                                 \* A renders no status control
      [] OTHER ->
           /\ ~preview
           /\ (field = "status" => r \in {"admin", "editor"})  \* canEditStatus

itemInputShown(e, isViewer, preview) ==
    IF e = "B" THEN ~isViewer ELSE ~preview

addShown(e, isViewer, preview) ==
    IF e = "B" THEN ~isViewer /\ ~preview ELSE ~preview

removeShown(e, isViewer, preview, nItems) ==
    IF e = "B" THEN ~isViewer /\ ~preview ELSE ~preview /\ nItems > 1

backEnabled(e, isSaving) == e = "B" => ~isSaving

downloadShown(e, isSaving) == e = "B" /\ ~isSaving

printEnabled(e, isSaving) == e = "B" => ~isSaving

(***************************************************************************)
(* What the document lists and the sidebar render.                         *)
(***************************************************************************)
createShown(r) == r # "viewer"

\* an edit button rendered for every role
editShown_anyRole(r) == r \in Roles

editShown(r) == r # "viewer"

\* InvoiceList: {isAdmin && <button ... onDelete(inv.id)>}; QuotationList has none
\* a delete button gated like the edit button
deleteShown_nonViewer(kind, r) == kind = "invoice" /\ r # "viewer"

deleteShown(kind, r) == kind = "invoice" /\ r = "admin"

\* a navigation that offers every target to every role
navShown_anyRole(target, r) == TRUE

navShown(target, r) ==
    IF target \in {"dashboard", "users", "settings"} THEN r # "viewer" ELSE TRUE

(***************************************************************************)
(* Effects that run after a render of the editor.                          *)
(***************************************************************************)
\* B: useEffect(() => { if (autoPrint) handleDownloadPDF() }, [autoPrint, handleDownloadPDF]).
\* handleDownloadPDF is re-created when isPreview or data.invoiceNumber changes; run
\* with isPreview false it sets isPreview, which re-creates it once more.
autoTrigger(autoPrint, changed, preview) ==
    IF autoPrint /\ changed
    THEN [isPreview |-> TRUE, timers |-> IF preview THEN 1 ELSE 2]
    ELSE [isPreview |-> preview, timers |-> 0]

\* The state of isPreview and the timeouts started once the mount effects have run.
mountEffects(e, isViewer, initialMode, autoPrint) ==
    LET p0 == initialIsPreview(isViewer, initialMode)
    IN  IF e = "B"
        THEN LET p1 == IF isViewer THEN TRUE ELSE initialMode = "preview"
             IN  autoTrigger(autoPrint, TRUE, p1)
        ELSE LET p1 == IF autoPrint THEN TRUE ELSE p0
                 p2 == IF isViewer THEN TRUE ELSE p1
             IN  [isPreview |-> p2, timers |-> IF autoPrint THEN 1 ELSE 0]

(***************************************************************************)
(* The remote store and the App's mapping to and from its rows.            *)
(***************************************************************************)
\* id: data.id.includes('-') && data.id.length > 20 ? data.id : undefined
idToSend(id) == IF IdIncludesDash(id) /\ IdLength(id) > 20 THEN id ELSE NoId

rowOf(d) ==
    [id |-> idToSend(d.id), number |-> d.number, status |-> d.status,
     client_name |-> d.clientName, tax_rate |-> d.taxRate]

itemRowOf(item, realId, rowId) ==
    [id |-> rowId, doc_id |-> realId, description |-> item.description,
     quantity |-> item.quantity, rate |-> item.rate]

RowIds(rows) == {rows[i].id : i \in DOMAIN rows}

\* upsert(...).select().single(): the stored row
upsertRow(rows, row) ==
    LET id == IF row.id = NoId THEN randomUUID(RowIds(rows)) ELSE row.id
        stored == [row EXCEPT !.id = id]
    IN  IF id \in RowIds(rows)
        THEN [rows |-> [i \in DOMAIN rows |-> IF rows[i].id = id THEN stored ELSE rows[i]],
              saved |-> stored]
        ELSE [rows |-> Append(rows, stored), saved |-> stored]

deleteItemRows(rows, realId) == SelectSeq(rows, LAMBDA r : r.doc_id # realId)

RECURSIVE insertItemRows(_, _, _, _)
insertItemRows(rows, items, i, realId) ==
    IF i > Len(items) THEN rows
    ELSE insertItemRows(Append(rows, itemRowOf(items[i], realId, randomUUID(RowIds(rows)))),
                        items, i + 1, realId)

itemOfRow(r) == [id |-> r.id, description |-> r.description, quantity |-> r.quantity, rate |-> r.rate]

itemsOfDoc(itemRows, docId) ==
    LET mine == SelectSeq(itemRows, LAMBDA r : r.doc_id = docId)
    IN  [i \in DOMAIN mine |-> itemOfRow(mine[i])]

docOfRow(r, itemRows) ==
    [id |-> r.id, number |-> r.number, status |-> r.status, clientName |-> r.client_name,
     taxRate |-> r.tax_rate, items |-> itemsOfDoc(itemRows, r.id)]

\* fetchData: setInvoices(invoicesData.map(...)), setQuotations(quotationsData.map(...))
fetchedDocs(store) ==
    [k \in Kinds |-> [i \in DOMAIN store.docs[k] |-> docOfRow(store.docs[k][i], store.items[k])]]

\* select(`*, invoice_items (*)`) names no order: the store may return the item rows
\* of a document in any order
itemOrders(itemRows, docId) ==
    LET mine == SelectSeq(itemRows, LAMBDA r : r.doc_id = docId)
    IN  {[i \in DOMAIN mine |-> itemOfRow(mine[p[i]])] : p \in Permutations(DOMAIN mine)}

docsOfRow(r, itemRows) ==
    {[id |-> r.id, number |-> r.number, status |-> r.status, clientName |-> r.client_name,
      taxRate |-> r.tax_rate, items |-> its] : its \in itemOrders(itemRows, r.id)}

kindResults(store, k) ==
    LET rows == store.docs[k]
    IN  {ds \in [DOMAIN rows -> UNION {docsOfRow(rows[i], store.items[k]) : i \in DOMAIN rows}] :
            \A i \in DOMAIN rows : ds[i] \in docsOfRow(rows[i], store.items[k])}

\* the collections a fetchData may set
fetchResults(store) ==
    {m \in [Kinds -> UNION {kindResults(store, k) : k \in Kinds}] :
        \A k \in Kinds : m[k] \in kindResults(store, k)}

\* invoices.find(i => i.id === view.invoiceId)
findDoc(docs, id) ==
    IF \E i \in DOMAIN docs : docs[i].id = id
    THEN docs[CHOOSE i \in DOMAIN docs : docs[i].id = id /\ \A j \in 1..(i - 1) : docs[j].id # id]
    ELSE NoDoc

(***************************************************************************)
(* The App: views, the mounted editor, and the state after sign-in.        *)
(***************************************************************************)
ListType(kind) == IF kind = "invoice" THEN "invoices" ELSE "quotations"
EditorType(kind) == IF kind = "invoice" THEN "invoice-editor" ELSE "quotation-editor"
NavTargets == {"dashboard", "invoices", "quotations", "reports", "users", "settings"}

plainView(type) == [type |-> type, docId |-> NoId, mode |-> None, autoPrint |-> FALSE]
editorView(kind, docId, mode, autoPrint) ==
    [type |-> EditorType(kind), docId |-> docId, mode |-> mode, autoPrint |-> autoPrint]

EditorOpen == view.type \in {"invoice-editor", "quotation-editor"}
OpenKind == IF view.type = "invoice-editor" THEN "invoice" ELSE "quotation"
OpenEditor == EditorOf(build, OpenKind)

\* renderView: if (loading && invoices.length === 0 && users.length === 0 &&
\* view.type !== 'dashboard') the spinner is rendered in place of the view
spinnerShown(ld, invoices, us, v) ==
    ld /\ invoices = <<>> /\ us = <<>> /\ v.type # "dashboard"

\* the editor is on screen: its view is current and the spinner does not replace it
EditorMounted == EditorOpen /\ ~spinnerShown(loading, mem["invoice"], users, view)
isViewer == role = "viewer"

ClientNames == {"", "Acme"}
Numbers == {"N-2"}         \* INV-/QT-${Math.floor(Math.random() * 10000)}
ItemFields == {"quantity"}
DocFields == {"number", "clientName", "status"}
FieldValues(kind, field) ==
    CASE field = "number" -> {"N-3"}
      [] field = "clientName" -> ClientNames
      [] field = "status" -> {IF kind = "invoice" THEN "paid" ELSE "accepted"}
ItemValues(field) ==
    CASE field = "quantity" -> {2}

seedRow == [id |-> Uuid(1), number |-> "N-1", status |-> "draft", client_name |-> "Acme",
            tax_rate |-> defaultTaxRate]
seedItemRow == [id |-> Uuid(1), doc_id |-> Uuid(1), description |-> "Work", quantity |-> 1, rate |-> 50]
\* the App's settings before any fetch
initialSettings == [companyName |-> "SANDPIX MALDIVES", defaultTaxRate |-> defaultTaxRate]

settingsRowOf(st) == [id |-> 1, company_name |-> st.companyName, default_tax_rate |-> st.defaultTaxRate]

settingsOfRow(r) == [companyName |-> r.company_name, defaultTaxRate |-> r.default_tax_rate]

seedUsers == << [id |-> <<"uuid", 1>>, name |-> "Ada", role |-> "admin", active |-> TRUE],
                [id |-> <<"uuid", 2>>, name |-> "Vic", role |-> "viewer", active |-> TRUE] >>

seedStore == [docs |-> [k \in Kinds |-> <<seedRow>>], items |-> [k \in Kinds |-> <<seedItemRow>>],
              settings |-> settingsRowOf(initialSettings), users |-> seedUsers]

\* Settings and Users keep their form state while mounted
closedSettingsView == [localSettings |-> initialSettings, isDirty |-> FALSE]
openSettingsView(st) == [localSettings |-> st, isDirty |-> FALSE]
emptyForm == [name |-> "", role |-> "viewer"]
closedUsersView == [isFormOpen |-> FALSE, editingId |-> NoId, formData |-> emptyForm]

\* clean: no remote call of the save has failed so far
idleSave == [pc |-> "idle", kind |-> "invoice", data |-> NoDoc, realId |-> NoId, clean |-> TRUE]

\* no handleUsersUpdate and no refetch under way
idleUserWrite == [pc |-> "idle", updates |-> <<>>, inserts |-> <<>>]
InitPersistIdle ==
    /\ userWrite = idleUserWrite
    /\ refetch = 0

(***************************************************************************)
(* Reports: calendar dates, the filter, the sort and the sums.  A date is  *)
(* the triple of the fields of its YYYY-MM-DD string, so comparing the     *)
(* strings is comparing the triples field by field; '' is emptyDate.       *)
(* Instants are counted in hours from the first day of FirstYear, UTC.     *)
(***************************************************************************)
HoursPerDay == 24
FirstYear == 2023

isLeap(y) == (y % 4 = 0 /\ y % 100 # 0) \/ y % 400 = 0
daysInMonth(y, m) ==
    IF m = 2 THEN (IF isLeap(y) THEN 29 ELSE 28)
    ELSE IF m \in {4, 6, 9, 11} THEN 30 ELSE 31
daysInYear(y) == IF isLeap(y) THEN 366 ELSE 365

RECURSIVE daysBeforeMonth(_, _)
daysBeforeMonth(y, m) == IF m = 1 THEN 0 ELSE daysBeforeMonth(y, m - 1) + daysInMonth(y, m - 1)

RECURSIVE daysBeforeYear(_)
daysBeforeYear(y) == IF y = FirstYear THEN 0 ELSE daysBeforeYear(y - 1) + daysInYear(y - 1)

\* days from the first day of FirstYear to the date
dayNumber(date) == daysBeforeYear(date[1]) + daysBeforeMonth(date[1], date[2]) + date[3] - 1

RECURSIVE dateFromMonth(_, _, _)
dateFromMonth(y, m, n) ==
    IF n >= daysInMonth(y, m) THEN dateFromMonth(y, m + 1, n - daysInMonth(y, m))
    ELSE <<y, m, n + 1>>

RECURSIVE dateFromYear(_, _)
dateFromYear(y, n) ==
    IF n >= daysInYear(y) THEN dateFromYear(y + 1, n - daysInYear(y))
    ELSE dateFromMonth(y, 1, n)

\* the calendar date of day number n
dateOfDay(n) == dateFromYear(FirstYear, n)

emptyDate == <<0, 0, 0>>

\* a <= b on the strings
isoLeq(a, b) ==
    \/ a[1] < b[1]
    \/ a[1] = b[1] /\ a[2] < b[2]
    \/ a[1] = b[1] /\ a[2] = b[2] /\ a[3] <= b[3]

\* new Date(date).getTime(): midnight UTC of the date
dateTime(date) == dayNumber(date) * HoursPerDay

\* now.getFullYear(), now.getMonth() + 1 and now.getDate() in the local time zone,
\* offset hours east of UTC
localDate(now, offset) == dateOfDay((now + offset) \div HoursPerDay)

\* new Date(year, monthIndex, day): local midnight; the constructor carries a month
\* index of 12 into the next year and day 0 into the month before
localMidnight(year, monthIndex, day, offset) ==
    LET y == year + (monthIndex \div 12)
        m == (monthIndex % 12) + 1
    IN  (dayNumber(<<y, m, 1>>) + day - 1) * HoursPerDay - offset

\* instant.toISOString().split('T')[0]: the UTC date of the instant
toISODate(instant) == dateOfDay(instant \div HoursPerDay)

\* useState(firstDay), useState(lastDay)
defaultRange(now, offset) ==
    LET local == localDate(now, offset)
        year == local[1]
        monthIndex == local[2] - 1
    IN  [startDate |-> toISODate(localMidnight(year, monthIndex, 1, offset)),
         endDate |-> toISODate(localMidnight(year, monthIndex + 1, 0, offset))]

inRange_exclusiveEnd(date, startDate, endDate) ==
    isoLeq(startDate, date) /\ isoLeq(date, endDate) /\ date # endDate
\* inv.date >= startDate && inv.date <= endDate
inRange(date, startDate, endDate) == isoLeq(startDate, date) /\ isoLeq(date, endDate)

\* Array.prototype.sort is stable: an invoice goes behind those that are not later
insertByDate(sorted, inv) ==
    LET n == Cardinality({i \in DOMAIN sorted : dateTime(sorted[i].date) - dateTime(inv.date) <= 0})
    IN  SubSeq(sorted, 1, n) \o <<inv>> \o SubSeq(sorted, n + 1, Len(sorted))

RECURSIVE sortByDate(_)
sortByDate(invs) ==
    IF invs = <<>> THEN <<>>
    ELSE insertByDate(sortByDate(SubSeq(invs, 1, Len(invs) - 1)), invs[Len(invs)])

filteredInvoices(invoices, startDate, endDate) ==
    sortByDate(SelectSeq(invoices, LAMBDA inv : inRange(inv.date, startDate, endDate)))

invoiceTotal_noTax(inv) == 100 * calculateSubtotal(inv.items)
\* subtotal + subtotal * (taxRate / 100), in hundredths
invoiceTotal(inv) == calculateTotals(inv.items, inv.taxRate).totalH

bucketOf_pendingElse(status) ==
    IF status = "paid" THEN "collected" ELSE "pending"
\* if paid ... else if pending ... else if draft ...
bucketOf(status) ==
    IF status = "paid" THEN "collected"
    ELSE IF status = "pending" THEN "pending"
    ELSE IF status = "draft" THEN "draft"
    ELSE None

emptyStats == [count |-> 0, totalAmount |-> 0, collected |-> 0, pending |-> 0, draft |-> 0]

addToStats(acc, inv) ==
    LET total == invoiceTotal(inv)
        bucket == bucketOf(inv.status)
        counted == [acc EXCEPT !.count = @ + 1, !.totalAmount = @ + total]
    IN  IF bucket = None THEN counted ELSE [counted EXCEPT ![bucket] = @ + total]

RECURSIVE reduceStats(_)
reduceStats(invs) ==
    IF invs = <<>> THEN emptyStats
    ELSE addToStats(reduceStats(SubSeq(invs, 1, Len(invs) - 1)), invs[Len(invs)])

\* chosen: the user has changed the range
unmountedReport ==
    [mounted |-> FALSE, chosen |-> FALSE, startDate |-> emptyDate, endDate |-> emptyDate,
     filteredInvoices |-> <<>>, stats |-> emptyStats]

\* what a render of Reports computes from its props and its range
renderReport(invoices, chosen, startDate, endDate) ==
    [mounted |-> TRUE, chosen |-> chosen, startDate |-> startDate, endDate |-> endDate,
     filteredInvoices |-> filteredInvoices(invoices, startDate, endDate),
     stats |-> reduceStats(filteredInvoices(invoices, startDate, endDate))]

\* noon UTC of 15 February 2024
idleNow == (dayNumber(<<2024, 2, 15>>) * HoursPerDay) + 12

InitReportsIdle ==
    /\ reportIn = [invoices |-> <<>>, now |-> idleNow, offset |-> 0]
    /\ report = unmountedReport

\* currentUser === null, and an absent localStorage item
NoUser == [id |-> NoId]

\* localStorage.getItem returns null for a key that is not there
NoItem == [kind |-> "absent", value |-> NoUser]
\* a stored text that is not JSON
notJSON == [kind |-> "text", value |-> NoUser]
\* JSON.stringify(user)
stringify(user) == [kind |-> "json", value |-> user]
\* JSON.parse(storedUser): the value, or a SyntaxError
parse(blob) == [threw |-> blob.kind # "json", value |-> blob.value]

\* Login: useState(false), useState(''), useState(''), useState(null)
idleLogin == [pc |-> "idle", identifier |-> "", password |-> "", error |-> None,
              isLoading |-> FALSE, fault |-> FALSE]

\* the Login view is unmounted once currentUser is set; the record keeps the
\* credentials of the attempt that signed in
signedIn(identifier, password) ==
    [pc |-> "signedIn", identifier |-> identifier, password |-> password, error |-> None,
     isLoading |-> FALSE, fault |-> FALSE]

\* a users row of the given role
accountWithRole(r) ==
    [id |-> Uuid(1), name |-> "ada", email |-> "a@x", password |-> "p", role |-> r,
     active |-> "true"]
\* the step taken last: its handler, the item id it was given, the items it found,
\* the items found by an addItem that came immediately before it, (for a toggle)
\* the isPreview it found, and (for the refetch of a save) that save
noAdd == [id |-> NoId, pre |-> <<>>]
itemStep(op, id, pre) ==
    [op |-> op, id |-> id, pre |-> pre,
     added |-> IF last.op = "addItem" THEN [id |-> last.id, pre |-> last.pre] ELSE noAdd,
     was |-> FALSE, saved |-> idleSave]
step(op) == [op |-> op, id |-> NoId, pre |-> <<>>, added |-> noAdd, was |-> FALSE,
             saved |-> idleSave]
modeStep(op, preview) == [step(op) EXCEPT !.was = preview]
saveStep(op, sv) == [step(op) EXCEPT !.saved = sv]

InitAppWith(us) ==
    /\ build \in Builds
    /\ role \in Roles
    /\ view = plainView(IF role = "viewer" THEN "invoices" ELSE "dashboard")
    /\ data = NoDoc
    /\ isPreview = FALSE
    /\ loading = FALSE
    /\ db = seedStore
    /\ mem = fetchedDocs(seedStore)
    /\ save = idleSave
    /\ timers = 0
    /\ edits = 0
    /\ saves = 0
    /\ last = step("login")
    /\ settings = settingsOfRow(seedStore.settings)
    /\ users = us
    /\ settingsView = closedSettingsView
    /\ usersView = closedUsersView
    /\ settingsWrites = <<>>
    /\ accounts = <<accountWithRole(role)>>
    /\ login = signedIn("ada", "p")
    /\ sandpix_user = stringify(accountWithRole(role))
    /\ currentUser = accountWithRole(role)
    /\ appInitialized = TRUE
    /\ InitPersistIdle

\* signed in, the first fetchData done
InitApp == InitAppWith(seedStore.users)

InitCalcIdle ==
    /\ calcIn = [items |-> <<>>, taxRate |-> 0]
    /\ calcOut = <<>>

Init == InitApp /\ InitCalcIdle /\ InitReportsIdle

\* an editor whose draft outlives the editor
unmounted_keepDraft == /\ data' = data
                       /\ isPreview' = FALSE

\* the editor is unmounted when the view leaves it
unmounted == /\ data' = NoDoc
             /\ isPreview' = FALSE

\* <aside> navigation: changeView(type); the aside is not rendered around an editor
ChangeView(target) ==
    /\ role # None
    /\ ~EditorOpen
    /\ navShown(target, role)
    /\ view.type # target
    /\ view' = plainView(target)
    /\ unmounted
    /\ settingsView' = IF target = "settings" THEN openSettingsView(settings) ELSE closedSettingsView
    /\ usersView' = closedUsersView
    /\ last' = step("nav")
    /\ UNCHANGED <<build, role, loading, mem, db, save, timers, edits, saves, sideVars,
                   settings, users, settingsWrites>>

\* ids the store or a save in flight already holds
usedDocIds(kind) ==
    RowIds(db.docs[kind]) \cup (IF save.pc # "idle" /\ save.kind = kind THEN {save.data.id} ELSE {})

\* the editor mounts with the view's props
mount(kind, docId, mode, autoPrint, number) ==
    LET e == EditorOf(build, kind)
        initialData == IF docId = NoId THEN NoDoc ELSE findDoc(mem[kind], docId)
        fx == mountEffects(e, isViewer, initialModeProp(mode), autoPrint)
    IN  /\ timers + fx.timers <= MaxTimers
        /\ view' = editorView(kind, docId, mode, autoPrint)
        /\ data' = initialDraft(initialData, kind, randomUUID(usedDocIds(kind)), randomUUID({}),
                                number, settings.defaultTaxRate)
        /\ isPreview' = fx.isPreview
        /\ timers' = timers + fx.timers

InList(kind) == view.type = ListType(kind)

\* onCreate={() => setView({ type: 'invoice-editor', mode: 'edit' })}
OnCreate(kind) ==
    /\ InList(kind)
    /\ createShown(role)
    /\ Cardinality(usedDocIds(kind)) < MaxDocs
    /\ \E number \in Numbers : mount(kind, NoId, "edit", FALSE, number)
    /\ last' = step("onCreate")
    /\ UNCHANGED <<build, role, loading, mem, db, save, edits, saves, sideVars, adminVars>>

\* onEdit={(id) => setView({ type: 'invoice-editor', invoiceId: id, mode: 'edit' })}
OnEdit(kind) ==
    /\ InList(kind)
    /\ editShown(role)
    /\ \E i \in DOMAIN mem[kind] : mount(kind, mem[kind][i].id, "edit", FALSE, "N-1")
    /\ last' = step("onEdit")
    /\ UNCHANGED <<build, role, loading, mem, db, save, edits, saves, sideVars, adminVars>>

\* onView={(id) => setView({ type: 'invoice-editor', invoiceId: id, mode: 'preview' })}
OnView(kind) ==
    /\ InList(kind)
    /\ \E i \in DOMAIN mem[kind] : mount(kind, mem[kind][i].id, "preview", FALSE, "N-1")
    /\ last' = step("onView")
    /\ UNCHANGED <<build, role, loading, mem, db, save, edits, saves, sideVars, adminVars>>

\* onDownload={(id) => setView({ ..., mode: 'preview', autoPrint: true })}
OnDownload(kind) ==
    /\ InList(kind)
    /\ \E i \in DOMAIN mem[kind] : mount(kind, mem[kind][i].id, "preview", TRUE, "N-1")
    /\ last' = step("onDownload")
    /\ UNCHANGED <<build, role, loading, mem, db, save, edits, saves, sideVars, adminVars>>

\* handleDeleteInvoice: confirm, remote delete (its error is not read), local filter
OnDelete ==
    /\ InList("invoice")
    /\ deleteShown("invoice", role)
    /\ \E i \in DOMAIN mem["invoice"], confirmed \in BOOLEAN, ok \in BOOLEAN :
         LET id == mem["invoice"][i].id
         IN  IF confirmed
             THEN /\ db' = IF ok
                           THEN [db EXCEPT !.docs["invoice"] = SelectSeq(@, LAMBDA r : r.id # id),
                                           !.items["invoice"] = deleteItemRows(@, id)]
                           ELSE db
                  /\ mem' = [mem EXCEPT !["invoice"] = SelectSeq(@, LAMBDA d : d.id # id)]
             ELSE /\ ok
                  /\ UNCHANGED <<db, mem>>
    /\ last' = step("onDelete")
    /\ UNCHANGED <<build, role, view, data, isPreview, loading, save, timers, edits, saves, sideVars, adminVars>>

(***************************************************************************)
(* The mounted editor.                                                     *)
(***************************************************************************)
\* onClick={() => setIsPreview(!isPreview)}
Toggle ==
    /\ EditorMounted
    /\ toggleShown(OpenEditor, isViewer, loading)
    /\ LET fx == IF OpenEditor = "B"
                 THEN autoTrigger(view.autoPrint, TRUE, ~isPreview)
                 ELSE [isPreview |-> ~isPreview, timers |-> 0]
       IN  /\ timers + fx.timers <= MaxTimers
           /\ isPreview' = fx.isPreview
           /\ timers' = timers + fx.timers
    /\ last' = modeStep("toggle", isPreview)
    /\ UNCHANGED <<build, role, view, data, loading, mem, db, save, edits, saves, sideVars, adminVars>>

AddItem ==
    /\ EditorMounted
    /\ addShown(OpenEditor, isViewer, isPreview)
    /\ Len(data.items) < MaxItems
    /\ edits < MaxEdits
    /\ LET newId == randomUUID(ItemIds(data))
       IN  /\ data' = IF OpenEditor = "B" THEN addItem(data, isViewer, newId)
                      ELSE handleAddItem(data, newId)
           /\ last' = itemStep("addItem", newId, data.items)
    /\ edits' = edits + 1
    /\ UNCHANGED <<build, role, view, isPreview, loading, mem, db, save, timers, saves, sideVars, adminVars>>

RemoveItem ==
    /\ EditorMounted
    /\ removeShown(OpenEditor, isViewer, isPreview, Len(data.items))
    /\ edits < MaxEdits
    /\ \E id \in ItemIds(data) :
         /\ data' = IF OpenEditor = "B" THEN removeItem(data, isViewer, id)
                    ELSE handleRemoveItem(data, id)
         /\ last' = itemStep("removeItem", id, data.items)
    /\ edits' = edits + 1
    /\ UNCHANGED <<build, role, view, isPreview, loading, mem, db, save, timers, saves, sideVars, adminVars>>

ItemChange ==
    /\ EditorMounted
    /\ itemInputShown(OpenEditor, isViewer, isPreview)
    /\ edits < MaxEdits
    /\ \E id \in ItemIds(data), field \in ItemFields :
         \E value \in ItemValues(field) :
           /\ data' = IF OpenEditor = "B" THEN handleItemChange_B(data, isViewer, id, field, value)
                      ELSE handleItemChange(data, id, field, value)
           /\ data' # data
           /\ last' = itemStep("itemChange", id, data.items)
    /\ edits' = edits + 1
    /\ UNCHANGED <<build, role, view, isPreview, loading, mem, db, save, timers, saves, sideVars, adminVars>>

FieldChange ==
    /\ EditorMounted
    /\ edits < MaxEdits
    /\ \E field \in DocFields :
         /\ fieldShown(OpenEditor, field, role, isPreview)
         /\ \E value \in FieldValues(OpenKind, field) :
              /\ data' = IF OpenEditor = "B" THEN handleChange(data, isViewer, field, value)
                         ELSE setField(data, field, value)
              /\ data' # data
         /\ LET fx == IF OpenEditor = "B"
                      THEN autoTrigger(view.autoPrint, field = "number", isPreview)
                      ELSE [isPreview |-> isPreview, timers |-> 0]
            IN  /\ timers + fx.timers <= MaxTimers
                /\ isPreview' = fx.isPreview
                /\ timers' = timers + fx.timers
    /\ edits' = edits + 1
    /\ last' = step("fieldChange")
    /\ UNCHANGED <<build, role, view, loading, mem, db, save, saves, sideVars, adminVars>>

\* App.handleSaveInvoice / handleSaveQuotation up to the first await
onSave(kind, d) ==
    /\ loading' = TRUE
    /\ save' = [pc |-> "upsert", kind |-> kind, data |-> d, realId |-> NoId, clean |-> TRUE]
    /\ last' = step("onSave")

\* A and Q: handleSaveClick; B: onClick={() => onSave(data)}
SaveClick ==
    /\ EditorMounted
    /\ save.pc = "idle"      \* one save is followed at a time
    /\ saveShown(OpenEditor, isViewer, isPreview, loading)
    /\ saves < MaxSaves
    /\ IF OpenEditor # "B" /\ data.clientName = ""
       THEN /\ last' = step("alert")
            /\ UNCHANGED <<loading, save, saves>>
       ELSE /\ onSave(OpenKind, data)
            /\ saves' = saves + 1
    \* the spinner, when it comes up, takes the editor's place and the editor unmounts
    /\ IF spinnerShown(loading', mem["invoice"], users, view)
       THEN unmounted
       ELSE UNCHANGED <<data, isPreview>>
    /\ UNCHANGED <<build, role, view, mem, db, timers, edits, sideVars, adminVars>>

\* onBack={() => setView({ type: 'invoices' })}
Back ==
    /\ EditorMounted
    /\ backEnabled(OpenEditor, loading)
    /\ view' = plainView(ListType(OpenKind))
    /\ unmounted
    /\ last' = step("back")
    /\ UNCHANGED <<build, role, loading, mem, db, save, timers, edits, saves, sideVars, adminVars>>

\* window.print() from the toolbar
HandlePrint ==
    /\ EditorMounted
    /\ printEnabled(OpenEditor, loading)
    /\ last.op # "print"
    /\ last' = step("print")
    /\ UNCHANGED <<build, role, view, data, isPreview, loading, mem, db, save, timers, edits, saves, sideVars, adminVars>>

\* B: handleDownloadPDF
HandleDownloadPDF ==
    /\ EditorMounted
    /\ downloadShown(OpenEditor, loading)
    /\ LET fx == autoTrigger(view.autoPrint, ~isPreview, TRUE)
       IN  /\ timers + 1 + fx.timers <= MaxTimers
           /\ timers' = timers + 1 + fx.timers
    /\ isPreview' = TRUE
    /\ last' = step("download")
    /\ UNCHANGED <<build, role, view, data, loading, mem, db, save, edits, saves, sideVars, adminVars>>

\* a setTimeout(..., 500) callback runs
TimerFire ==
    /\ timers > 0
    /\ timers' = timers - 1
    /\ UNCHANGED <<build, role, view, data, isPreview, loading, mem, db, save, edits, saves, last, sideVars, adminVars>>

(***************************************************************************)
(* The save in flight: each await of handleSaveInvoice / handleSaveQuotation *)
(* resolves in a step of its own.                                          *)
(***************************************************************************)
MaxRows == MaxDocs * MaxItems

\* upsert(...).select().single() resolves; if (!invError) { ... } setLoading(false)
UpsertDone ==
    /\ save.pc = "upsert"
    /\ \E ok \in BOOLEAN :
         IF ok
         THEN LET r == upsertRow(db.docs[save.kind], rowOf(save.data))
              IN  /\ db' = [db EXCEPT !.docs[save.kind] = r.rows]
                  /\ save' = [save EXCEPT !.pc = "delete", !.realId = r.saved.id]
                  /\ UNCHANGED loading
         ELSE /\ save' = idleSave
              /\ loading' = FALSE
              /\ UNCHANGED db
    \* when the spinner goes away the editor mounts again, from its props
    /\ IF EditorOpen /\ spinnerShown(loading, mem["invoice"], users, view) /\ ~loading'
       THEN \E number \in Numbers :
                mount(OpenKind, view.docId, view.mode, view.autoPrint, number)
       ELSE UNCHANGED <<view, data, isPreview, timers>>
    /\ last' = step("upsertDone")
    /\ UNCHANGED <<build, role, mem, edits, saves, sideVars, adminVars>>

\* await ...delete().eq('invoice_id', realId): the result is not read
DeleteItemsDone ==
    /\ save.pc = "delete"
    /\ \E ok \in BOOLEAN :
         IF ok
         THEN /\ db' = [db EXCEPT !.items[save.kind] = deleteItemRows(@, save.realId)]
              /\ save' = [save EXCEPT !.pc = IF Len(save.data.items) > 0 THEN "insert" ELSE "fetch"]
         ELSE /\ Len(db.items[save.kind]) + Len(save.data.items) <= MaxRows
              /\ UNCHANGED db
              /\ save' = [save EXCEPT !.pc = IF Len(save.data.items) > 0 THEN "insert" ELSE "fetch",
                                      !.clean = FALSE]
    /\ last' = step("deleteItemsDone")
    /\ UNCHANGED <<build, role, view, data, isPreview, loading, mem, timers, edits, saves, sideVars, adminVars>>

\* await ...insert(itemsToInsert): the result is not read.  The item rows reference
\* their document (the fetch embeds them through that relationship), so the insert
\* fails when the document row is gone.
InsertItemsDone ==
    /\ save.pc = "insert"
    /\ \E ok \in BOOLEAN :
         IF ok
         THEN /\ save.realId \in RowIds(db.docs[save.kind])
              /\ db' = [db EXCEPT !.items[save.kind] = insertItemRows(@, save.data.items, 1, save.realId)]
              /\ save' = [save EXCEPT !.pc = "fetch"]
         ELSE /\ UNCHANGED db
              /\ save' = [save EXCEPT !.pc = "fetch", !.clean = FALSE]
    /\ last' = step("insertItemsDone")
    /\ UNCHANGED <<build, role, view, data, isPreview, loading, mem, timers, edits, saves, sideVars, adminVars>>

\* await fetchData(); setView({ type: 'invoices' }); setLoading(false)
FetchDone ==
    /\ save.pc = "fetch"
    /\ settings' = settingsOfRow(db.settings)
    /\ users' = db.users
    /\ mem' \in fetchResults(db)
    /\ view' = plainView(ListType(save.kind))
    /\ unmounted
    /\ settingsView' = closedSettingsView
    /\ usersView' = closedUsersView
    /\ loading' = FALSE
    /\ save' = idleSave
    /\ last' = saveStep("fetchDone", save)
    /\ UNCHANGED <<build, role, db, timers, edits, saves, sideVars, settingsWrites>>

Next ==
    \/ \E target \in NavTargets : ChangeView(target)
    \/ \E kind \in Kinds : OnCreate(kind)
    \/ \E kind \in Kinds : OnEdit(kind)
    \/ \E kind \in Kinds : OnView(kind)
    \/ \E kind \in Kinds : OnDownload(kind)
    \/ OnDelete
    \/ Toggle
    \/ AddItem
    \/ RemoveItem
    \/ ItemChange
    \/ FieldChange
    \/ SaveClick
    \/ Back
    \/ HandlePrint
    \/ HandleDownloadPDF
    \/ TimerFire
    \/ UpsertDone
    \/ DeleteItemsDone
    \/ InsertItemsDone
    \/ FetchDone

Spec == Init /\ [][Next]_vars

(***************************************************************************)
(* The calculator on its own: every input of the bounded sets.             *)
(***************************************************************************)
InitCalc ==
    /\ InitApp
    /\ build = "A"
    /\ role = "admin"
    /\ calcIn \in [items : CalcItemLists, taxRate : TaxRates]
    /\ calcOut = <<>>
    /\ InitReportsIdle

Calculate ==
    /\ calcOut = <<>>
    /\ calcOut' = <<calculateTotals(calcIn.items, calcIn.taxRate)>>
    /\ UNCHANGED calcIn
    /\ UNCHANGED appVars
    /\ UNCHANGED loginVars
    /\ UNCHANGED reportVars
    /\ UNCHANGED persistVars

NextCalc == Calculate

SpecCalc == InitCalc /\ [][NextCalc]_vars

(***************************************************************************)
(* The Settings and Users views.                                           *)
(***************************************************************************)
MaxUsers == 3       \* users in the list
MaxWrites == 1      \* settings upserts in flight at once

SettingsFields == {"companyName", "defaultTaxRate"}
SettingsValues(field) == IF field = "companyName" THEN {"SANDPIX"} ELSE {8}
UserNames == {"Eve"}
FormFields == {"name", "role"}
FormValues(field) == IF field = "name" THEN UserNames ELSE {"editor"}

\* inputs: disabled={!isAdmin}
settingsInputEnabled(r) == r = "admin"

\* {isAdmin && (... Cancel / Save Changes, disabled={!isDirty})}
settingsButtonsShown(r, isDirty) == r = "admin" /\ isDirty

\* Users: {isAdmin && <button onClick={startAdd}>}, {isAdmin && (edit / toggle)}
userButtonsShown(r) == r = "admin"

\* {isFormOpen && isAdmin && (<form onSubmit={handleSave}>)}
userFormShown(r, isFormOpen) == isFormOpen /\ r = "admin"

\* users.filter(user => isAdmin || user.role !== 'admin')
displayedUsers(us, r) == SelectSeq(us, LAMBDA u : r = "admin" \/ u.role # "admin")

settingsHandleChange(sv, r, field, value) ==
    IF r # "admin" THEN sv
    ELSE [localSettings |-> [sv.localSettings EXCEPT ![field] = value], isDirty |-> TRUE]

newUser(form, n) == [id |-> <<"ts", n>>, name |-> form.name, role |-> form.role, active |-> TRUE]

usersHandleSave(us, uv) ==
    IF uv.editingId # NoId
    THEN [i \in DOMAIN us |->
            IF us[i].id = uv.editingId
            THEN [us[i] EXCEPT !.name = uv.formData.name, !.role = uv.formData.role]
            ELSE us[i]]
    ELSE Append(us, newUser(uv.formData, Len(us) + 1))

toggleStatus(us, r, id) ==
    IF r # "admin" THEN us
    ELSE [i \in DOMAIN us |->
            IF us[i].id = id THEN [us[i] EXCEPT !.active = (us[i].active = FALSE)] ELSE us[i]]

InSettings == view.type = "settings"
InUsers == view.type = "users"

adminFrame == UNCHANGED <<build, role, view, data, isPreview, loading, mem, save, timers,
                          saves, sideVars>>

SettingsChange ==
    /\ InSettings
    /\ settingsInputEnabled(role)
    /\ edits < MaxEdits
    /\ \E field \in SettingsFields : \E value \in SettingsValues(field) :
         /\ settingsView' = settingsHandleChange(settingsView, role, field, value)
         /\ settingsView'.localSettings # settingsView.localSettings
    /\ edits' = edits + 1
    /\ last' = step("settingsChange")
    /\ adminFrame
    /\ UNCHANGED <<db, settings, users, usersView, settingsWrites>>

\* Settings.handleSave -> App.handleSettingsUpdate up to its await; the effect on
\* [settings] then resets the form
SettingsSave ==
    /\ InSettings
    /\ settingsButtonsShown(role, settingsView.isDirty)
    /\ Len(settingsWrites) < MaxWrites
    /\ settings' = settingsView.localSettings
    /\ settingsWrites' = Append(settingsWrites, settingsRowOf(settingsView.localSettings))
    /\ settingsView' = openSettingsView(settingsView.localSettings)
    /\ last' = step("settingsSave")
    /\ adminFrame
    /\ UNCHANGED <<db, users, usersView, edits>>

\* await supabase.from('settings').upsert(...): the result is not read
SettingsUpsertDone ==
    /\ settingsWrites # <<>>
    /\ \E ok \in BOOLEAN :
         db' = IF ok THEN [db EXCEPT !.settings = Head(settingsWrites)] ELSE db
    /\ settingsWrites' = Tail(settingsWrites)
    /\ last' = step("settingsUpsertDone")
    /\ adminFrame
    /\ UNCHANGED <<settings, users, settingsView, usersView, edits>>

SettingsCancel ==
    /\ InSettings
    /\ settingsButtonsShown(role, settingsView.isDirty)
    /\ settingsView' = openSettingsView(settings)
    /\ last' = step("settingsCancel")
    /\ adminFrame
    /\ UNCHANGED <<db, settings, users, usersView, settingsWrites, edits>>

StartAdd ==
    /\ InUsers
    /\ userButtonsShown(role)
    /\ usersView' = [isFormOpen |-> TRUE, editingId |-> NoId, formData |-> emptyForm]
    /\ usersView' # usersView
    /\ last' = step("startAdd")
    /\ adminFrame
    /\ UNCHANGED <<db, settings, users, settingsView, settingsWrites, edits>>

StartEdit ==
    /\ InUsers
    /\ userButtonsShown(role)
    /\ \E i \in DOMAIN displayedUsers(users, role) :
         LET u == displayedUsers(users, role)[i]
         IN  usersView' = [isFormOpen |-> TRUE, editingId |-> u.id,
                           formData |-> [name |-> u.name, role |-> u.role]]
    /\ usersView' # usersView
    /\ last' = step("startEdit")
    /\ adminFrame
    /\ UNCHANGED <<db, settings, users, settingsView, settingsWrites, edits>>

UserFormChange ==
    /\ InUsers
    /\ userFormShown(role, usersView.isFormOpen)
    /\ edits < MaxEdits
    /\ \E field \in FormFields : \E value \in FormValues(field) :
         /\ usersView' = [usersView EXCEPT !.formData[field] = value]
         /\ usersView' # usersView
    /\ edits' = edits + 1
    /\ last' = step("userFormChange")
    /\ adminFrame
    /\ UNCHANGED <<db, settings, users, settingsView, settingsWrites>>

\* Users.handleSave -> App.handleUsersUpdate
UserSave ==
    /\ InUsers
    /\ userFormShown(role, usersView.isFormOpen)
    /\ usersView.formData.name # ""                      \* <input required ...>
    /\ usersView.editingId = NoId => Len(users) < MaxUsers
    /\ users' = usersHandleSave(users, usersView)
    /\ usersView' = closedUsersView
    /\ last' = step("userSave")
    /\ adminFrame
    /\ UNCHANGED <<db, settings, settingsView, settingsWrites, edits>>

UserToggleStatus ==
    /\ InUsers
    /\ userButtonsShown(role)
    /\ edits < MaxEdits
    /\ \E i \in DOMAIN displayedUsers(users, role) :
         users' = toggleStatus(users, role, displayedUsers(users, role)[i].id)
    /\ edits' = edits + 1
    /\ last' = step("toggleStatus")
    /\ adminFrame
    /\ UNCHANGED <<db, settings, settingsView, usersView, settingsWrites>>

NextAdmin ==
    \/ \E target \in NavTargets : ChangeView(target)
    \/ \E kind \in Kinds : OnCreate(kind)
    \/ \E kind \in Kinds : OnEdit(kind)
    \/ OnDelete
    \/ FieldChange
    \/ Back
    \/ SettingsChange
    \/ SettingsSave
    \/ SettingsUpsertDone
    \/ SettingsCancel
    \/ StartAdd
    \/ StartEdit
    \/ UserFormChange
    \/ UserSave
    \/ UserToggleStatus

SpecAdmin == Init /\ [][NextAdmin]_vars

(***************************************************************************)
(* The App that writes users to the store (part_005): handleUsersUpdate,   *)
(* the refetch it starts without awaiting it, and the saves, deletes and   *)
(* settings writes that run beside it.                                     *)
(***************************************************************************)
MaxRefetch == 1     \* un-awaited calls of fetchData in flight at once

UserIds(us) == {us[i].id : i \in DOMAIN us}

\* existing users with a real UUID are updated, every one of them
usersToUpdate(current, nextUsers) ==
    SelectSeq(nextUsers, LAMBDA u : u.id \in UserIds(current) /\ IdLength(u.id) > 20)

\* users whose id the current list does not hold are inserted, without their id
usersToInsert(current, nextUsers) ==
    SelectSeq(nextUsers, LAMBDA u : u.id \notin UserIds(current))

\* supabase.from('users').upsert(updates)
upsertUsers(rows, updates) ==
    LET held == [i \in DOMAIN rows |->
                    IF \E j \in DOMAIN updates : updates[j].id = rows[i].id
                    THEN updates[CHOOSE j \in DOMAIN updates : updates[j].id = rows[i].id]
                    ELSE rows[i]]
    IN  held \o SelectSeq(updates, LAMBDA u : u.id \notin UserIds(rows))

\* supabase.from('users').insert(inserts): the store gives each row its id
RECURSIVE insertUsers(_, _)
insertUsers(rows, inserts) ==
    IF inserts = <<>> THEN rows
    ELSE insertUsers(Append(rows, [id |-> randomUUID(UserIds(rows)), name |-> Head(inserts).name,
                                   role |-> Head(inserts).role,
                                   active |-> Head(inserts).active # FALSE]),
                     Tail(inserts))

\* handleUsersUpdate up to its first await (the Users view removes nobody, so
\* removedIds is empty)
handleUsersUpdate(nextUsers) ==
    LET updates == usersToUpdate(users, nextUsers)
        inserts == usersToInsert(users, nextUsers)
    IN  /\ users' = nextUsers
        /\ userWrite' = [pc |-> IF updates # <<>> THEN "upsert"
                                ELSE IF inserts # <<>> THEN "insert" ELSE "idle",
                         updates |-> updates, inserts |-> inserts]

persistFrame == UNCHANGED <<build, role, view, data, isPreview, save, timers, saves,
                            settingsView, settingsWrites, calcVars, loginVars, reportVars>>

\* Users.handleSave -> handleUsersUpdate
UserSaveWritten ==
    /\ InUsers
    /\ userFormShown(role, usersView.isFormOpen)
    /\ usersView.formData.name # ""
    /\ usersView.editingId = NoId => Len(users) < MaxUsers
    /\ userWrite.pc = "idle"      \* one handleUsersUpdate is followed at a time
    /\ handleUsersUpdate(usersHandleSave(users, usersView))
    /\ usersView' = closedUsersView
    /\ last' = step("userSave")
    /\ persistFrame
    /\ UNCHANGED <<db, mem, settings, loading, refetch, edits>>

\* Users.toggleStatus -> handleUsersUpdate
UserToggleWritten ==
    /\ InUsers
    /\ userButtonsShown(role)
    /\ edits < MaxEdits
    /\ userWrite.pc = "idle"
    /\ \E i \in DOMAIN displayedUsers(users, role) :
         handleUsersUpdate(toggleStatus(users, role, displayedUsers(users, role)[i].id))
    /\ edits' = edits + 1
    /\ last' = step("toggleStatus")
    /\ persistFrame
    /\ UNCHANGED <<db, mem, settings, loading, refetch, usersView>>

\* await ...upsert(updates): an error is logged and nothing else
UsersUpsertDone ==
    /\ userWrite.pc = "upsert"
    /\ \E ok \in BOOLEAN :
         /\ db' = IF ok THEN [db EXCEPT !.users = upsertUsers(@, userWrite.updates)] ELSE db
         /\ last' = [step("usersUpsertDone") EXCEPT !.was = ok]
    /\ userWrite' = IF userWrite.inserts # <<>> THEN [userWrite EXCEPT !.pc = "insert"]
                    ELSE idleUserWrite
    /\ persistFrame
    /\ UNCHANGED <<users, mem, settings, loading, refetch, edits, usersView>>

\* await ...insert(inserts): an error is logged; then fetchData() is called and
\* not awaited, and its first statement is setLoading(true)
UsersInsertDone ==
    /\ userWrite.pc = "insert"
    /\ refetch < MaxRefetch
    /\ \E ok \in BOOLEAN :
         db' = IF ok THEN [db EXCEPT !.users = insertUsers(@, userWrite.inserts)] ELSE db
    /\ userWrite' = idleUserWrite
    /\ refetch' = refetch + 1
    /\ loading' = TRUE
    /\ last' = step("usersInsertDone")
    /\ persistFrame
    /\ UNCHANGED <<users, mem, settings, edits, usersView>>

\* that fetchData resolves: settings, users and invoices are set, and finally
\* setLoading(false)
RefetchDone ==
    /\ refetch > 0
    /\ settings' = settingsOfRow(db.settings)
    /\ users' = db.users
    /\ mem' \in fetchResults(db)
    /\ loading' = FALSE
    /\ refetch' = refetch - 1
    /\ last' = step("refetchDone")
    /\ persistFrame
    /\ UNCHANGED <<db, userWrite, edits, usersView>>

\* this App has invoices only; the admin is signed in, and the users of the first
\* fetchData either arrived or did not (if (usersData) setUsers(usersData))
InitPersist ==
    /\ \E us \in {seedStore.users, <<>>} : InitAppWith(us)
    /\ InitCalcIdle
    /\ InitReportsIdle
    /\ build = "A"
    /\ role = "admin"

NextPersist ==
    \/ \E target \in NavTargets \ {"quotations"} : ChangeView(target)
    \/ OnCreate("invoice")
    \/ OnEdit("invoice")
    \/ OnDelete
    \/ FieldChange
    \/ SaveClick
    \/ Back
    \/ UpsertDone
    \/ DeleteItemsDone
    \/ InsertItemsDone
    \/ FetchDone
    \/ SettingsChange
    \/ SettingsSave
    \/ SettingsUpsertDone
    \/ StartAdd
    \/ UserFormChange
    \/ UserSaveWritten
    \/ UserToggleWritten
    \/ UsersUpsertDone
    \/ UsersInsertDone
    \/ RefetchDone

SpecPersist == InitPersist /\ [][NextPersist]_vars

\* every remote call of a save resolves, with a result or with an error: each
\* await of handleSaveInvoice is followed by its continuation
SaveFairness ==
    /\ WF_vars(UpsertDone)
    /\ WF_vars(DeleteItemsDone)
    /\ WF_vars(InsertItemsDone)
    /\ WF_vars(FetchDone)

SpecPersistFair == SpecPersist /\ SaveFairness

(***************************************************************************)
(* The Login view and the App's session handlers, over every users table   *)
(* of the bounded sets.                                                    *)
(***************************************************************************)
MaxAccounts == 2    \* rows of the users table

AccountNames == {"ada", "bob"}
AccountEmails == {"a@x", "b@x"}
Passwords == {"p", "q"}
AccountRoles == {"admin", "viewer"}
\* User.active?: boolean
ActiveValues == {"true", "false", None}
\* what the user types into the 'Email or Name' field
Identifiers == AccountNames \cup AccountEmails

AccountFields ==
    [name : AccountNames, email : AccountEmails, password : Passwords,
     role : AccountRoles, active : ActiveValues]

accountRow(f, n) ==
    [id |-> Uuid(n), name |-> f.name, email |-> f.email, password |-> f.password,
     role |-> f.role, active |-> f.active]

\* setError messages
errDisabled == "Your account has been disabled. Please contact an administrator."
errInvalid == "Invalid credentials. Please check your name/email and password."
errOccurred == "An error occurred during login. Please try again."

\* .or(`email.eq.${identifier},name.eq.${identifier}`).eq('password', password)
matchingRows(table, identifier, password) ==
    SelectSeq(table, LAMBDA r : (r.email = identifier \/ r.name = identifier)
                                /\ r.password = password)

\* .maybeSingle(): the row, null for no row, an error for more than one row
maybeSingle(rows) ==
    IF Len(rows) > 1 THEN [data |-> NoUser, error |-> TRUE]
    ELSE IF Len(rows) = 1 THEN [data |-> rows[1], error |-> FALSE]
    ELSE [data |-> NoUser, error |-> FALSE]

\* the users the App keeps in memory read active as user.active !== false
userOfAccount(a) == [id |-> a.id, name |-> a.name, role |-> a.role, active |-> a.active # "false"]

InitLogin ==
    /\ build = "A"
    /\ role = None
    /\ view = plainView("dashboard")
    /\ data = NoDoc
    /\ isPreview = FALSE
    /\ loading = FALSE
    /\ \E n \in 0..MaxAccounts : \E f \in [1..n -> AccountFields] :
          accounts = [i \in 1..n |-> accountRow(f[i], i)]
    /\ db = [seedStore EXCEPT !.users = [i \in DOMAIN accounts |-> userOfAccount(accounts[i])]]
    /\ mem = [k \in Kinds |-> <<>>]
    /\ save = idleSave
    /\ timers = 0
    /\ edits = 0
    /\ saves = 0
    /\ last = step("mount")
    /\ settings = settingsOfRow(seedStore.settings)
    /\ users = <<>>
    /\ settingsView = closedSettingsView
    /\ usersView = closedUsersView
    /\ settingsWrites = <<>>
    /\ login = idleLogin
    /\ sandpix_user = NoItem
    /\ currentUser = NoUser
    /\ appInitialized = TRUE
    /\ InitPersistIdle
    /\ InitReportsIdle
    /\ InitCalcIdle

loginFrame == UNCHANGED <<build, data, isPreview, mem, db, save, timers, edits, saves,
                          settings, users, settingsView, usersView, settingsWrites,
                          accounts, appInitialized, calcVars, reportVars, persistVars>>

\* Login.handleLogin up to the await
HandleLogin(identifier, password) ==
    /\ appInitialized
    /\ role = None
    /\ login.pc = "idle"
    /\ ~login.isLoading
    /\ login' = [pc |-> "query", identifier |-> identifier, password |-> password,
                 error |-> None, isLoading |-> TRUE, fault |-> FALSE]
    /\ last' = step("handleLogin")
    /\ UNCHANGED <<role, view, loading, sandpix_user, currentUser>>
    /\ loginFrame

\* a handleLogin that keeps the session in memory only
onLogin_memoryOnly(user) ==
    /\ currentUser' = user
    /\ role' = user.role
    /\ sandpix_user' = sandpix_user
    /\ view' = IF user.role = "viewer" THEN plainView("invoices") ELSE view
    /\ loading' = TRUE

\* App.handleLogin, and the fetchData effect that the new currentUser starts
onLogin(user) ==
    /\ currentUser' = user
    /\ role' = user.role
    /\ sandpix_user' = stringify(user)
    /\ view' = IF user.role = "viewer" THEN plainView("invoices") ELSE view
    /\ loading' = TRUE

\* the query resolves
QueryDone ==
    /\ login.pc = "query"
    /\ LET result == maybeSingle(matchingRows(accounts, login.identifier, login.password))
           failed(message) ==
               /\ login' = [login EXCEPT !.pc = "idle", !.error = message, !.isLoading = FALSE]
               /\ UNCHANGED <<role, view, loading, sandpix_user, currentUser>>
       IN  IF result.error THEN failed(errOccurred)
           ELSE IF result.data # NoUser
           THEN IF result.data.active = "false" THEN failed(errDisabled)
                ELSE /\ onLogin(result.data)
                     /\ login' = signedIn(login.identifier, login.password)
           ELSE failed(errInvalid)
    /\ last' = step("queryDone")
    /\ loginFrame

\* the query rejects (the store cannot be reached): catch
QueryFault ==
    /\ login.pc = "query"
    /\ login' = [login EXCEPT !.pc = "idle", !.error = errOccurred, !.isLoading = FALSE,
                              !.fault = TRUE]
    /\ last' = step("queryFault")
    /\ UNCHANGED <<role, view, loading, sandpix_user, currentUser>>
    /\ loginFrame

\* fetchData started by the [currentUser] effect resolves
SessionFetchDone ==
    /\ loading
    /\ save.pc = "idle"
    /\ settings' = settingsOfRow(db.settings)
    /\ users' = IF role = None THEN users ELSE db.users
    /\ IF role = None THEN mem' = mem ELSE mem' \in fetchResults(db)
    /\ loading' = FALSE
    /\ last' = step("fetchDone")
    /\ UNCHANGED <<build, role, view, data, isPreview, db, save, timers, edits, saves,
                   settingsView, usersView, settingsWrites, sideVars>>

\* App.handleLogout, and the fetchData effect
HandleLogout ==
    /\ role # None
    /\ ~EditorOpen
    /\ currentUser' = NoUser
    /\ role' = None
    /\ sandpix_user' = NoItem
    /\ view' = plainView("dashboard")
    /\ loading' = TRUE
    /\ login' = idleLogin
    /\ last' = step("logout")
    /\ loginFrame

NextLogin ==
    \/ \E identifier \in Identifiers, password \in Passwords : HandleLogin(identifier, password)
    \/ QueryDone
    \/ QueryFault
    \/ SessionFetchDone
    \/ HandleLogout

SpecLogin == InitLogin /\ [][NextLogin]_vars

(***************************************************************************)
(* The session across restarts: the page is loaded with whatever the       *)
(* browser kept under 'sandpix_user', the App re-hydrates, and the user    *)
(* signs in, navigates, signs out and reloads.                             *)
(***************************************************************************)
\* the users table of the session runs: an admin and a viewer
sessionAccounts ==
    <<accountRow([name |-> "ada", email |-> "a@x", password |-> "p", role |-> "admin",
                  active |-> "true"], 1),
      accountRow([name |-> "bob", email |-> "b@x", password |-> "q", role |-> "viewer",
                  active |-> "true"], 2)>>

\* what the browser may hold under the key when the page loads: nothing, a blob
\* an earlier handleLogin wrote, or a text that is not JSON
StoredBlobs ==
    {NoItem, notJSON} \cup {stringify(sessionAccounts[i]) : i \in DOMAIN sessionAccounts}

\* the App's state at the first render: every useState at its initial value
firstRender ==
    /\ currentUser' = NoUser
    /\ role' = None
    /\ view' = plainView("dashboard")
    /\ appInitialized' = FALSE
    /\ loading' = FALSE
    /\ login' = idleLogin
    /\ mem' = [k \in Kinds |-> <<>>]
    /\ users' = <<>>
    /\ settings' = initialSettings
    /\ settingsView' = closedSettingsView
    /\ usersView' = closedUsersView

InitSession ==
    /\ build = "A"
    /\ role = None
    /\ currentUser = NoUser
    /\ appInitialized = FALSE
    /\ sandpix_user \in StoredBlobs
    /\ view = plainView("dashboard")
    /\ data = NoDoc
    /\ isPreview = FALSE
    /\ loading = FALSE
    /\ accounts = sessionAccounts
    /\ db = [seedStore EXCEPT !.users = [i \in DOMAIN accounts |-> userOfAccount(accounts[i])]]
    /\ mem = [k \in Kinds |-> <<>>]
    /\ save = idleSave
    /\ timers = 0
    /\ edits = 0
    /\ saves = 0
    /\ last = step("mount")
    /\ settings = initialSettings
    /\ users = <<>>
    /\ settingsView = closedSettingsView
    /\ usersView = closedUsersView
    /\ settingsWrites = <<>>
    /\ login = idleLogin
    /\ InitPersistIdle
    /\ InitReportsIdle
    /\ InitCalcIdle

\* the mount effects: the stored session is read, and fetchData starts
Rehydrate ==
    /\ ~appInitialized
    /\ LET storedUser == sandpix_user
           user == parse(storedUser)
       IN  IF storedUser = NoItem
           THEN UNCHANGED <<currentUser, role, view, sandpix_user>>
           ELSE IF user.threw
           THEN /\ sandpix_user' = NoItem
                /\ UNCHANGED <<currentUser, role, view>>
           ELSE /\ currentUser' = user.value
                /\ role' = user.value.role
                /\ view' = IF user.value.role = "viewer" THEN plainView("invoices") ELSE view
                /\ UNCHANGED sandpix_user
    /\ appInitialized' = TRUE
    /\ loading' = TRUE
    /\ last' = [step("rehydrate") EXCEPT !.was = last.was]
    /\ UNCHANGED <<build, data, isPreview, mem, db, save, timers, edits, saves, login,
                   accounts, adminVars, calcVars, reportVars, persistVars>>

\* the page is reloaded: the App starts again, the browser's storage and the
\* remote store stay
Restart ==
    /\ appInitialized
    /\ save.pc = "idle"
    /\ firstRender
    /\ last' = [step("restart") EXCEPT !.was = role # None]
    /\ UNCHANGED <<build, data, isPreview, db, save, timers, edits, saves, settingsWrites,
                   accounts, sandpix_user, calcVars, reportVars, persistVars>>

NextSession ==
    \/ Rehydrate
    \/ Restart
    \/ \E identifier \in Identifiers, password \in Passwords : HandleLogin(identifier, password)
    \/ QueryDone
    \/ QueryFault
    \/ SessionFetchDone
    \/ HandleLogout
    \/ \E target \in NavTargets : ChangeView(target)

SpecSession == InitSession /\ [][NextSession]_vars

(***************************************************************************)
(* The Reports view on its own: every invoice collection of the bounded    *)
(* sets under a fixed clock, and every clock of the bounded sets over a    *)
(* fixed collection.                                                       *)
(***************************************************************************)
MaxReportDocs == 3  \* invoices handed to Reports

ReportDates == {<<2024, 1, 31>>, <<2024, 2, 1>>, <<2024, 2, 29>>}
\* the date inputs give a date or, when cleared, ''
RangeDates == ReportDates \cup {emptyDate}
\* inv.status comes from the store as it is: a value outside InvoiceStatus is kept
ReportStatuses == InvoiceStatus \cup {"void"}
\* quantity and rate are any number the inputs parse, negative ones included
ReportLines ==
    { [items |-> <<[quantity |-> 2, rate |-> 50]>>, taxRate |-> 6],
      [items |-> <<[quantity |-> 0 - 1, rate |-> 50]>>, taxRate |-> 0],
      [items |-> <<[quantity |-> 1, rate |-> 0]>>, taxRate |-> 6] }

ReportFields == [date : ReportDates, status : ReportStatuses, line : ReportLines]

reportDoc(f, n) ==
    [id |-> Uuid(n), date |-> f.date, status |-> f.status, taxRate |-> f.line.taxRate,
     items |-> f.line.items]

seedReportDocs ==
    << reportDoc([date |-> <<2024, 2, 1>>, status |-> "paid",
                  line |-> [items |-> <<[quantity |-> 2, rate |-> 50]>>, taxRate |-> 6]], 1) >>

ClockDays == dayNumber(<<2023, 12, 1>>)..dayNumber(<<2025, 1, 31>>)
ClockHours == {0, 12, 23}
\* hours east of UTC
ClockOffsets == {0 - 5, 0, 5}

InitReports ==
    /\ InitApp
    /\ build = "A"
    /\ role = "admin"
    /\ InitCalcIdle
    /\ \E n \in 0..MaxReportDocs : \E f \in [1..n -> ReportFields] :
          reportIn = [invoices |-> [i \in 1..n |-> reportDoc(f[i], i)],
                      now |-> idleNow, offset |-> 0]
    /\ report = unmountedReport

InitReportsClock ==
    /\ InitApp
    /\ build = "A"
    /\ role = "admin"
    /\ InitCalcIdle
    /\ \E d \in ClockDays, h \in ClockHours, offset \in ClockOffsets :
          reportIn = [invoices |-> seedReportDocs, now |-> (d * HoursPerDay) + h,
                      offset |-> offset]
    /\ report = unmountedReport

reportFrame == /\ UNCHANGED appVars
               /\ UNCHANGED <<calcVars, loginVars, persistVars, reportIn>>

\* Reports is rendered for the first time
ReportsMount ==
    /\ ~report.mounted
    /\ LET range == defaultRange(reportIn.now, reportIn.offset)
       IN  report' = renderReport(reportIn.invoices, FALSE, range.startDate, range.endDate)
    /\ reportFrame

\* onChange of the From input
SetStartDate(date) ==
    /\ report.mounted
    /\ report' = renderReport(reportIn.invoices, TRUE, date, report.endDate)
    /\ reportFrame

\* onChange of the To input
SetEndDate(date) ==
    /\ report.mounted
    /\ report' = renderReport(reportIn.invoices, TRUE, report.startDate, date)
    /\ reportFrame

NextReports ==
    \/ ReportsMount
    \/ \E date \in RangeDates : SetStartDate(date)
    \/ \E date \in RangeDates : SetEndDate(date)

SpecReports == InitReports /\ [][NextReports]_vars

SpecReportsClock == InitReportsClock /\ [][NextReports]_vars

(***************************************************************************)
(* Claims.                                                                 *)
(***************************************************************************)
\* the sum of quantity * rate over the items, taken from the last item backwards
RECURSIVE SumAmounts(_)
SumAmounts(items) ==
    IF items = <<>> THEN 0
    ELSE SumAmounts(SubSeq(items, 1, Len(items) - 1))
         + items[Len(items)].quantity * items[Len(items)].rate

scenarioItems == << [quantity |-> 2, rate |-> 50], [quantity |-> 1, rate |-> 25] >>

\* C1: for any item list and tax rate the calculator returns subtotal = the sum of
\* quantity * rate, taxAmount = subtotal * taxRate / 100 and total = subtotal +
\* taxAmount (amounts in hundredths: 100 * taxAmount = subtotal * taxRate); an empty
\* list gives 0, 0, 0; items (2, 50), (1, 25) at tax rate 6 give 125, 7.5 and 132.5.
C1_Totals ==
    calcOut # <<>> =>
        LET out == calcOut[1]
        IN  /\ out.subtotal = SumAmounts(calcIn.items)
            /\ 100 * out.taxAmountH = 100 * out.subtotal * calcIn.taxRate
            /\ out.totalH = 100 * out.subtotal + out.taxAmountH
            /\ (calcIn.items = <<>> =>
                  out = [subtotal |-> 0, taxAmountH |-> 0, totalH |-> 0])
            /\ (calcIn.items = scenarioItems /\ calcIn.taxRate = 6 =>
                  out = [subtotal |-> 125, taxAmountH |-> 750, totalH |-> 13250])

C1_Witness ==
    /\ calcOut # <<>>
    /\ calcIn.items = scenarioItems
    /\ calcIn.taxRate = 6
    /\ calcOut[1].totalH = 13250

\* C2: in every reachable state the editor's draft and every document of the
\* in-memory collections have at least one line item.
C2_AtLeastOneItem ==
    /\ EditorOpen => Len(data.items) >= 1
    /\ \A k \in Kinds : \A i \in DOMAIN mem[k] : Len(mem[k][i].items) >= 1

\* C3: removing an item from a draft that has exactly one item leaves the item list
\* as it was, in every editor.
C3_RemoveOnlyItemIsNoOp ==
    (last.op = "removeItem" /\ Len(last.pre) = 1) => data.items = last.pre

\* C4: adding an item and then at once removing the item just added leaves the item
\* list exactly as it was before the addition: same items, order and values.
C4_AddThenRemove ==
    (last.op = "removeItem" /\ last.added.id # NoId /\ last.id = last.added.id)
        => data.items = last.added.pre

C4_Witness ==
    /\ last.op = "removeItem"
    /\ last.added.id # NoId
    /\ last.id = last.added.id
    /\ Len(last.added.pre) = 1
    /\ data.items = last.added.pre

\* C5: a save request whose draft has an empty client name never reaches onSave, in
\* every editor.
C5_EmptyClientNameRejected ==
    last.op = "onSave" => save.data.clientName # ""

\* C6: onSave is invoked only from Editing and only by a non-viewer; in Previewing,
\* and for a viewer in any state, the save control is not available and no save is
\* ever started.
C6_SaveOnlyInEditing ==
    /\ last.op \in {"onSave", "alert"} => (~isPreview /\ role # "viewer")
    /\ (EditorOpen /\ (isPreview \/ isViewer))
          => ~saveShown(OpenEditor, isViewer, isPreview, loading)
    /\ role = "viewer" => (saves = 0 /\ save.pc = "idle")

C6_Witness ==
    /\ last.op = "onSave"
    /\ role = "editor"
    /\ ~isPreview
    /\ save.pc = "upsert"

\* C7: for a viewer no sequence of list and editor actions changes the draft (it stays
\* the document that was opened) and none invokes onCreate, onEdit, onSave or
\* onDelete.
C7_ViewerChangesNothing ==
    role = "viewer" =>
        /\ last.op \notin {"onCreate", "onEdit", "onSave", "alert", "onDelete", "addItem",
                           "removeItem", "itemChange", "fieldChange", "toggle"}
        /\ edits = 0
        /\ saves = 0
        /\ save.pc = "idle"
        /\ db = seedStore
        /\ mem = fetchedDocs(seedStore)
        /\ EditorOpen => (view.docId # NoId /\ data = findDoc(mem[OpenKind], view.docId))

C7_Witness ==
    /\ role = "viewer"
    /\ EditorOpen
    /\ view.autoPrint
    /\ last.op = "print"
    /\ data = findDoc(mem[OpenKind], view.docId)

\* C8: an editor may create and edit documents and edit their status wherever an
\* admin may, but cannot delete a document, change or save the settings, or add, edit,
\* enable or disable a user: these are done by an admin only, and an admin can do
\* each of them.
C8_EditorAndAdminPermissions ==
    /\ last.op \in {"onDelete", "settingsChange", "settingsSave", "settingsCancel", "startAdd",
                    "startEdit", "userFormChange", "userSave", "toggleStatus"}
          => role = "admin"
    /\ role # "admin" =>
          /\ settings = initialSettings
          /\ users = seedUsers
          /\ ~settingsView.isDirty
          /\ ~usersView.isFormOpen
          /\ settingsWrites = <<>>
          /\ db = seedStore
          /\ mem = fetchedDocs(seedStore)
    /\ createShown("editor") /\ editShown("editor")
    /\ fieldShown("B", "status", "editor", FALSE) /\ fieldShown("Q", "status", "editor", FALSE)
    /\ \A e \in {"A", "B", "Q"} : \A p \in BOOLEAN :
          fieldShown(e, "status", "editor", p) = fieldShown(e, "status", "admin", p)
    /\ \A k \in Kinds : ~deleteShown(k, "editor")
    /\ ~settingsInputEnabled("editor") /\ ~userButtonsShown("editor")
    /\ \A b \in BOOLEAN : ~settingsButtonsShown("editor", b) /\ ~userFormShown("editor", b)
    /\ deleteShown("invoice", "admin") /\ createShown("admin") /\ editShown("admin")
    /\ settingsInputEnabled("admin") /\ settingsButtonsShown("admin", TRUE)
    /\ userButtonsShown("admin") /\ userFormShown("admin", TRUE)

C8_Witness ==
    /\ role = "editor"
    /\ EditorOpen
    /\ view.docId # NoId
    /\ last.op = "fieldChange"
    /\ data.status # findDoc(mem[OpenKind], view.docId).status

\* C9: while the current user is a viewer an open editor is in preview and offers no
\* toggle, whichever entry point opened it and whatever export was triggered.
C9_ViewerAlwaysPreviewing ==
    (role = "viewer" /\ EditorOpen) =>
        /\ isPreview
        /\ ~toggleShown(OpenEditor, isViewer, loading)

C9_Witness ==
    /\ role = "viewer"
    /\ EditorOpen
    /\ view.autoPrint
    /\ timers > 0
    /\ last.op = "print"
    /\ isPreview

\* C10: right after an entry point has opened the editor it is in preview if and only
\* if the user is a viewer or the entry point asked for preview mode; with no mode
\* given the App passes 'edit', so only a viewer starts in preview.
C10_InitialMode ==
    /\ last.op \in {"onCreate", "onEdit", "onView", "onDownload"}
          => (isPreview <=> (role = "viewer" \/ view.mode = "preview"))
    /\ \A e \in {"A", "B", "Q"} : \A r \in Roles : \A m \in {None, "edit", "preview"} :
          mountEffects(e, r = "viewer", initialModeProp(m), FALSE).isPreview
              <=> (r = "viewer" \/ m = "preview")

C10_Witness ==
    /\ last.op = "onView"
    /\ role = "editor"
    /\ view.mode = "preview"
    /\ isPreview

\* C11: every toggle flips the mode: right after a toggle the editor is in the mode
\* opposite to the one the toggle found, so an editor opened in preview is in
\* Editing after one toggle.
C11_ToggleFlipsMode ==
    last.op = "toggle" => isPreview = ~last.was

\* C12: print fires only while the editor is in preview: a print requested in Editing
\* has moved the editor to preview by the time it runs.
C12_PrintOnlyInPreview ==
    (last.op = "print" /\ EditorOpen) => isPreview

\* the attempt the Login view made last has resolved, and the store answered it
attemptAnswered == login.pc \in {"idle", "signedIn"} /\ login.identifier # "" /\ ~login.fault

\* the stored records whose name or email is the identifier and whose password is
\* the password of that attempt
matchingAccounts ==
    {i \in DOMAIN accounts :
        /\ accounts[i].email = login.identifier \/ accounts[i].name = login.identifier
        /\ accounts[i].password = login.password}

\* C13: an attempt whose identifier and password are those of stored records that are
\* all disabled ends with the 'disabled' message and with no session: no current
\* user, nothing in local storage.
C13_DisabledAccountRejected ==
    (/\ attemptAnswered
     /\ matchingAccounts # {}
     /\ \A i \in matchingAccounts : accounts[i].active = "false")
    => /\ login.error = errDisabled
       /\ role = None
       /\ sandpix_user = NoItem

\* C14: every answered attempt has one of three outcomes: the user when the matching
\* records are active, 'disabled' when they have active = false, 'invalid
\* credentials' when no record matches; nothing else.
C14_AuthOutcomes ==
    attemptAnswered =>
        /\ login.pc = "signedIn" \/ login.error \in {errDisabled, errInvalid}
        /\ matchingAccounts = {} => (login.pc = "idle" /\ login.error = errInvalid)
        /\ (matchingAccounts # {} /\ \A i \in matchingAccounts : accounts[i].active = "false")
              => (login.pc = "idle" /\ login.error = errDisabled)
        /\ (matchingAccounts # {} /\ \A i \in matchingAccounts : accounts[i].active # "false")
              => (login.pc = "signedIn" /\ \E i \in matchingAccounts : sandpix_user = stringify(accounts[i]))

\* the invoices handed to Reports whose date lies in the range, bounds included
inRangeInvoices ==
    {inv \in {reportIn.invoices[i] : i \in DOMAIN reportIn.invoices} :
        isoLeq(report.startDate, inv.date) /\ isoLeq(inv.date, report.endDate)}

\* C15: the filtered list holds exactly the invoices with start <= date <= end, each
\* once, in ascending order of date, and count is its length.
C15_FilteredList ==
    report.mounted =>
        LET f == report.filteredInvoices
        IN  /\ {f[i] : i \in DOMAIN f} = inRangeInvoices
            /\ \A i, j \in DOMAIN f : i # j => f[i].id # f[j].id
            /\ \A i, j \in DOMAIN f : i < j => isoLeq(f[i].date, f[j].date)
            /\ report.stats.count = Len(f)

\* a report whose list starts at the start date and ends at the end date, leaves an
\* invoice out, and holds two invoices that were handed over in the opposite order
C15_Witness ==
    /\ report.mounted
    /\ Len(report.filteredInvoices) >= 2
    /\ report.filteredInvoices[1].date = report.startDate
    /\ report.filteredInvoices[Len(report.filteredInvoices)].date = report.endDate
    /\ Len(report.filteredInvoices) < Len(reportIn.invoices)
    /\ \E i, j \in DOMAIN reportIn.invoices :
          /\ i < j
          /\ reportIn.invoices[i] \in inRangeInvoices
          /\ reportIn.invoices[j] \in inRangeInvoices
          /\ reportIn.invoices[i].date # reportIn.invoices[j].date
          /\ isoLeq(reportIn.invoices[j].date, reportIn.invoices[i].date)

\* the total of an invoice in hundredths, from the sum taken from the last item
totalOf(inv) == (100 * SumAmounts(inv.items)) + (SumAmounts(inv.items) * inv.taxRate)

\* the sum of the totals of the invoices of the list that have one of the statuses
RECURSIVE SumTotalsOf(_, _)
SumTotalsOf(invs, statuses) ==
    IF invs = <<>> THEN 0
    ELSE (IF Head(invs).status \in statuses THEN totalOf(Head(invs)) ELSE 0)
         + SumTotalsOf(Tail(invs), statuses)

\* C16: totalAmount is the sum of the totals of the filtered invoices, collected,
\* pending and draft are the sums over those with status paid, pending and draft, an
\* invoice of another status adds to count and totalAmount only, and a range with no
\* invoice gives an empty list and zero sums.
C16_Sums ==
    report.mounted =>
        LET f == report.filteredInvoices
            stats == report.stats
        IN  /\ stats.count = Len(f)
            /\ stats.totalAmount = SumTotalsOf(f, ReportStatuses)
            /\ stats.collected = SumTotalsOf(f, {"paid"})
            /\ stats.pending = SumTotalsOf(f, {"pending"})
            /\ stats.draft = SumTotalsOf(f, {"draft"})
            /\ inRangeInvoices = {} => (f = <<>> /\ stats = emptyStats)

\* a report over a paid invoice and an invoice of another status, both with a total
C16_Witness ==
    /\ report.mounted
    /\ \E i, j \in DOMAIN report.filteredInvoices :
          /\ report.filteredInvoices[i].status = "paid"
          /\ report.filteredInvoices[j].status \notin InvoiceStatus
          /\ totalOf(report.filteredInvoices[i]) > 0
          /\ totalOf(report.filteredInvoices[j]) > 0

\* C17 as stated: collected + pending + draft <= totalAmount, with equality exactly
\* when every filtered invoice has status paid, pending or draft.
C17_BucketsWithinTotal ==
    report.mounted =>
        LET stats == report.stats
            buckets == stats.collected + stats.pending + stats.draft
        IN  /\ buckets <= stats.totalAmount
            /\ buckets = stats.totalAmount
                  <=> \A i \in DOMAIN report.filteredInvoices :
                         report.filteredInvoices[i].status \in InvoiceStatus

\* C17: collected + pending + draft is totalAmount less the totals of the filtered
\* invoices of any other status; it equals totalAmount when every filtered invoice
\* has status paid, pending or draft.
C17_BucketsAndOthers ==
    report.mounted =>
        LET stats == report.stats
            f == report.filteredInvoices
            buckets == stats.collected + stats.pending + stats.draft
            others == SumTotalsOf(f, ReportStatuses \ InvoiceStatus)
        IN  /\ buckets = stats.totalAmount - others
            /\ others >= 0 => buckets <= stats.totalAmount
            /\ buckets = stats.totalAmount <=> others = 0
            /\ (\A i \in DOMAIN f : f[i].status \in InvoiceStatus) => buckets = stats.totalAmount

\* a report whose invoices of another status have a negative total together
C17_Witness ==
    /\ report.mounted
    /\ SumTotalsOf(report.filteredInvoices, ReportStatuses \ InvoiceStatus) < 0
    /\ report.stats.collected + report.stats.pending + report.stats.draft > report.stats.totalAmount

\* C18: until a range is chosen, the start date is the first day and the end date the
\* last day of the month of the evaluation instant in the local calendar.
C18_DefaultRangeIsLocalMonth ==
    (report.mounted /\ ~report.chosen) =>
        LET local == localDate(reportIn.now, reportIn.offset)
        IN  /\ report.startDate = <<local[1], local[2], 1>>
            /\ report.endDate = <<local[1], local[2], daysInMonth(local[1], local[2])>>

\* the in-memory documents of the kind just saved that carry the persisted id
savedInMemory ==
    {i \in DOMAIN mem[last.saved.kind] : mem[last.saved.kind][i].id = last.saved.realId}

\* line items without their ids
lineOf(item) == [description |-> item.description, quantity |-> item.quantity, rate |-> item.rate]

\* C19: after a save whose remote calls all succeeded and its refetch, the document
\* not having been deleted from the store meanwhile, the collection holds exactly one
\* document with the persisted id, its fields and its line items,
\* in the draft's order, are those of the saved draft, and the view is the list.
C19_SavedDocumentRoundTrip ==
    (/\ last.op = "fetchDone"
     /\ last.saved.clean
     /\ last.saved.realId \in RowIds(db.docs[last.saved.kind])) =>
        /\ Cardinality(savedInMemory) = 1
        /\ \A i \in savedInMemory :
              LET doc == mem[last.saved.kind][i]
                  draft == last.saved.data
              IN  /\ doc.number = draft.number
                  /\ doc.status = draft.status
                  /\ doc.clientName = draft.clientName
                  /\ doc.taxRate = draft.taxRate
                  /\ [j \in DOMAIN doc.items |-> lineOf(doc.items[j])]
                        = [j \in DOMAIN draft.items |-> lineOf(draft.items[j])]
        /\ view = plainView(ListType(last.saved.kind))

\* C20: a draft created in the editor (no stored document was opened) carries an id
\* that the heuristic classifies as not yet saved, so a save of it sends no id.
C20_NewDraftHasPlaceholderId ==
    (EditorOpen /\ view.docId = NoId) => idToSend(data.id) = NoId

\* C28: an addItem step appends exactly one line item at the end, with empty
\* description, quantity 1, rate 0 and an id no item of the draft had; the items
\* that were there and every other field of the draft stay as they were.
C28_AddLineItem ==
    [][(last'.op = "addItem" /\ last' # last) =>
          /\ data' = [data EXCEPT !.items =
                         Append(@, [id |-> last'.id, description |-> "", quantity |-> 1, rate |-> 0])]
          /\ \A i \in DOMAIN data.items : data.items[i].id # last'.id]_vars

\* an item has just been added to a draft that had one whose quantity was edited
C28_Witness ==
    /\ last.op = "addItem"
    /\ Len(last.pre) >= 1
    /\ last.pre[1].quantity # 1
    /\ Len(data.items) = Len(last.pre) + 1

\* C25: leaving the editor through Back makes no persistence call (the store
\* and the save in progress stay as they are, no save is started), leaves the
\* in-memory collections unchanged and drops the draft; a document opened
\* next shows the values of the in-memory collection, as last fetched.
C25_BackDiscards ==
    [][/\ (EditorOpen /\ last'.op = "back") =>
              /\ db' = db /\ mem' = mem /\ save' = save /\ saves' = saves
              /\ data' = NoDoc
       /\ (last.op = "back" /\ last'.op \in {"onEdit", "onView", "onDownload"}) =>
              \E k \in Kinds :
                  /\ view'.type = EditorType(k)
                  /\ \E i \in DOMAIN mem[k] : mem[k][i].id = view'.docId /\ data' = mem[k][i]]_vars

\* Back has just been used on a draft that had been edited and never saved
C25_Witness ==
    /\ last.op = "back"
    /\ edits >= 1
    /\ saves = 0
    /\ \E k \in Kinds : mem[k] # <<>>

\* the status select's onChange, in the editor e
statusChange(e, d, viewer, to) ==
    IF e = "B" THEN handleChange(d, viewer, "status", to) ELSE setField(d, "status", to)

statusChangeable ==
    \A from \in StatusOf(OpenKind) : \A to \in StatusOf(OpenKind) \ {from} :
        /\ fieldShown(OpenEditor, "status", role, isPreview)
        /\ statusChange(OpenEditor, [data EXCEPT !.status = from], isViewer, to).status = to

statusesInSet ==
    /\ \A k \in Kinds :
          /\ \A i \in DOMAIN mem[k] : mem[k][i].status \in StatusOf(k)
          /\ \A i \in DOMAIN db.docs[k] : db.docs[k][i].status \in StatusOf(k)
    /\ EditorOpen => data.status \in StatusOf(OpenKind)

\* C24: the status of every document (stored, in memory, or being edited) is a
\* member of its kind's set, and whenever a non-viewer has an editor open in
\* Editing mode the status control is there and takes the draft from any status
\* of the set to any other in one change.
C24_StatusSetAndControl ==
    /\ statusesInSet
    /\ (EditorOpen /\ role # "viewer" /\ ~isPreview) => statusChangeable

\* C29: opening a document through download starts the export once, and in an
\* editor opened that way a later toggle or field edit starts no further export
\* and leaves the mode as that step itself sets it (flipped by a toggle,
\* untouched by an edit).
C29_ExportOnce ==
    [][/\ (~EditorOpen /\ last'.op = "onDownload") => timers' = timers + 1
       /\ (EditorOpen /\ view.autoPrint /\ Toggle) =>
              timers' = timers /\ isPreview' = ~isPreview
       /\ (EditorOpen /\ view.autoPrint /\ (FieldChange \/ ItemChange \/ AddItem \/ RemoveItem)) =>
              timers' = timers /\ isPreview' = isPreview]_vars

\* C26: once startup has completed, a user is logged in exactly when the
\* serialized user is in local storage, and it is that user's blob: login
\* stores it, logout removes it, a blob that cannot be parsed has been removed
\* with nobody logged in, and a reload brings back the stored user without any
\* query of the credentials.
C26_SessionMatchesStorage ==
    appInitialized =>
        /\ (currentUser # NoUser) <=> (sandpix_user # NoItem)
        /\ currentUser # NoUser => sandpix_user = stringify(currentUser)
        /\ sandpix_user # notJSON
        /\ last.op = "rehydrate" => login = idleLogin
        /\ last.op = "logout" => (currentUser = NoUser /\ sandpix_user = NoItem)

\* a reload of a signed-in session has re-hydrated the viewer
C26_Witness ==
    /\ last.op = "rehydrate"
    /\ last.was
    /\ currentUser = sessionAccounts[2]
    /\ sandpix_user = stringify(sessionAccounts[2])

\* C27: while the logged-in user is a viewer the view is never the dashboard,
\* the users view or the settings view.
C27_ViewerViews ==
    role = "viewer" => view.type \notin {"dashboard", "users", "settings"}

\* a signed-in viewer has navigated to the reports view
C27_Witness ==
    /\ role = "viewer"
    /\ login.pc = "signedIn"
    /\ last.op = "nav"
    /\ view.type = "reports"

\* the two lists hold the same users in the same order; the id of a user the
\* view has just added may differ from the id the store gave it
sameUsers(shown, stored) ==
    /\ Len(shown) = Len(stored)
    /\ \A i \in DOMAIN shown :
          /\ shown[i].name = stored[i].name
          /\ shown[i].role = stored[i].role
          /\ shown[i].active = stored[i].active
          /\ IdLength(shown[i].id) > 20 => shown[i].id = stored[i].id

\* C30: every change made in the Users view reaches the remote users table:
\* once no write of users is under way the table holds the list the view
\* shows, so a refetch gives that list back, up to the ids of added users.
C30_UsersWrittenThrough ==
    sameUsers(users, db.users)

\* C21: while a save is in flight the saving flag is up and the save control
\* of an open editor is not offered, whatever else resolves in the meantime,
\* so no second save can be started beside it.
C21_SaveControlHeld ==
    save.pc # "idle" =>
        /\ loading
        /\ EditorOpen => ~saveShown(OpenEditor, isViewer, isPreview, loading)

\* what a failed remote call must leave alone
deleteFailureHarmless ==
    (OnDelete /\ db' = db) => (mem' = mem /\ view' = view)

upsertFailureHarmless ==
    (UpsertDone /\ save'.pc = "idle") =>
        (mem' = mem /\ view' = view /\ data' = data /\ users' = users /\ settings' = settings)

itemFailureHarmless ==
    (FetchDone /\ ~save.clean) => (mem' = mem /\ view' = view)

settingsFailureHarmless ==
    (SettingsUpsertDone /\ db' = db) => settings' = settingsOfRow(db.settings)

usersFailureHarmless ==
    (UsersUpsertDone /\ ~last'.was) =>
        \A i \in DOMAIN users' : \A j \in DOMAIN db.users :
            users'[i].id = db.users[j].id => users'[i] = db.users[j]

\* C22: a remote call that fails leaves the App as if the operation had never
\* been started: after a failed invoice delete, invoice upsert, line-item delete
\* or insert, settings upsert or users upsert, the in-memory collections,
\* settings and users and the view are those from before the operation (for
\* settings and users: those the store still holds).
C22_FailureChangesNothing ==
    [][/\ deleteFailureHarmless
       /\ upsertFailureHarmless
       /\ itemFailureHarmless
       /\ settingsFailureHarmless
       /\ usersFailureHarmless]_vars

\* the order of the remote steps of a save
pcRank(pc) ==
    CASE pc = "upsert" -> 1 [] pc = "delete" -> 2 [] pc = "insert" -> 3 [] pc = "fetch" -> 4
      [] OTHER -> 5

\* C23: every save that was started finishes: its remote steps run once each,
\* in order, none is taken again, and the saving flag comes back down.  The
\* save ends either at its refetch, which shows the list of its kind, or at a
\* failed upsert, which leaves the view, the draft and the mode as they are
\* with the flag down, so that the save control is offered again; starting
\* the save does not touch the view or the draft either.
C23_SaveFinishes ==
    /\ (save.pc # "idle") ~> (save.pc = "idle" /\ ~loading)
    /\ [][/\ (save.pc # "idle" /\ save'.pc # save.pc) => pcRank(save'.pc) > pcRank(save.pc)
          /\ FetchDone => (view' = plainView(ListType(save.kind)) /\ ~loading')
          /\ (SaveClick /\ save'.pc # "idle") => (view' = view /\ data' = data)
          /\ (UpsertDone /\ save'.pc = "idle") =>
                 /\ view' = view /\ data' = data /\ isPreview' = isPreview
                 /\ ~loading'
                 /\ (EditorOpen /\ ~isPreview) =>
                        saveShown(OpenEditor, isViewer, isPreview', loading')]_vars

====
